---- MODULE Spec2Model ----
(***************************************************************************)
(* Regex -> postfix -> NFA (Thompson's Construction), modelled from app.py. *)
(* A string is a sequence of one-character strings, so ''.join(output) is   *)
(* the sequence `output' itself.                                            *)
(*                                                                          *)
(*   SpecCompile : one call of infix_to_postfix(regex)                      *)
(*   SpecBuild   : State.count = 0 followed by one call build_nfa(postfix)  *)
(*   SpecConc    : two such build_nfa calls on threads sharing State.count  *)
(***************************************************************************)
EXTENDS Integers, Sequences, FiniteSets, TLC

VARIABLES
    pc,          \* position of the sequential call: where it is in its code
    regex,       \* infix_to_postfix: the argument
    new_regex,   \* infix_to_postfix: result of add_concat_operator
    pos,         \* infix_to_postfix: index of the next character of new_regex
    output,      \* infix_to_postfix: output list
    opstack,     \* infix_to_postfix: the operator list `stack'
    postfix,     \* value returned by infix_to_postfix / argument of build_nfa
    idx,         \* build_nfa: index of the next token of postfix
    stack,       \* build_nfa: the fragment list `stack'
    count,       \* State.count, the class attribute
    result,      \* build_nfa: the returned tuple
    symbol_made, \* history: transitions created by the symbol branch
    t_pc,        \* per thread: position in build_nfa / State.__init__
    t_postfix,   \* per thread: argument of build_nfa
    t_idx,       \* per thread: index of the next token
    t_stack,     \* per thread: fragment list
    t_self_id,   \* per thread: self.id of the State under construction
                 \*   ("None" outside State.__init__)
    t_tmp,       \* per thread: value of State.count loaded by `+= 1'
                 \*   (0 outside State.__init__)
    t_fresh,     \* per thread: States already constructed for this token
    t_ids        \* per thread history: ids of the States it constructed

seq_vars == <<pc, regex, new_regex, pos, output, opstack, postfix, idx,
              stack, count, result, symbol_made>>
conc_vars == <<t_pc, t_postfix, t_idx, t_stack, t_self_id, t_tmp, t_fresh,
               t_ids>>
vars == <<seq_vars, conc_vars>>

(***************************************************************************)
(* Bounds                                                                   *)
(***************************************************************************)
MaxInfixLen == 3
MaxPostfixLen == 4
MaxConcTokens == 3

\* The label build_nfa writes on epsilon transitions (the character U+03B5).
Epsilon == "ε"

Strings(alphabet, n) == UNION {[1..k -> alphabet] : k \in 0..n}

InfixAlphabet == {"a", "b", "c", "(", ")", "|", "*", "."}
\* Example regexes of the application and its documentation, longer than
\* MaxInfixLen.
InfixExamples == { <<"(", "a", "|", "b", ")", "*", "c">>,
                   <<"(", "a", ")", "(", "b", ")">>,
                   <<"a", "(", "b", "|", "c", ")", "*", "d">>,
                   <<"(", "a", "b", ")", "|", "(", "c", "d", ")">> }
InfixInputs == Strings(InfixAlphabet, MaxInfixLen) \cup InfixExamples

PostfixAlphabet == {"a", "b", Epsilon, ".", "|", "*"}
PostfixInputs == Strings(PostfixAlphabet, MaxPostfixLen)

(***************************************************************************)
(* infix_to_postfix                                                         *)
(***************************************************************************)
RECURSIVE AddConcatLoop(_, _, _)
\* The for loop of add_concat_operator, from index i (1-based) on.
AddConcatLoop(re, i, acc) ==
    IF i > Len(re) - 1 THEN acc
    ELSE LET withChar == Append(acc, re[i])
         IN  AddConcatLoop(re, i + 1,
                 IF re[i] \notin {"(", "|"} /\ re[i + 1] \notin {"|", ")", "*"}
                 THEN Append(withChar, ".")
                 ELSE withChar)

\* add_concat_operator treating the final character like the others.
add_concat_operator_trailing(re) ==
    LET looped == AddConcatLoop(re, 1, <<>>)
    IN  IF re = <<>> THEN looped
        ELSE IF re[Len(re)] \notin {"(", "|"}
             THEN looped \o <<re[Len(re)], ".">>
             ELSE Append(looped, re[Len(re)])

add_concat_operator(re) ==
    LET looped == AddConcatLoop(re, 1, <<>>)
    IN  IF re # <<>> THEN Append(looped, re[Len(re)]) ELSE looped

\* precedence with '*' binding as loosely as '|'.
precedence_flat(c) ==
    CASE c = "|" -> 1
      [] c = "." -> 2
      [] c = "*" -> 1
      [] OTHER   -> 0

\* precedence.get(c, 0)
precedence(c) ==
    CASE c = "|" -> 1
      [] c = "." -> 2
      [] c = "*" -> 3
      [] OTHER   -> 0

InPrecedence(c) == c \in {"|", ".", "*"}

RECURSIVE PopToParen(_, _)
\* while stack and stack[-1] != '(': output.append(stack.pop())
\* returns <<output, stack>>
PopToParen(out, stk) ==
    IF stk # <<>> /\ stk[Len(stk)] # "("
    THEN PopToParen(Append(out, stk[Len(stk)]), SubSeq(stk, 1, Len(stk) - 1))
    ELSE <<out, stk>>

\* The loop test with > in place of >=.
PopsBeforeStrict(top, c) == precedence(top) > precedence(c)

\* The test of the operator branch's while loop.
PopsBefore(top, c) == precedence(top) >= precedence(c)

RECURSIVE PopHigher(_, _, _)
\* while stack and stack[-1] != '(' and prec(stack[-1]) >= prec(c): pop
PopHigher(out, stk, c) ==
    IF stk # <<>> /\ stk[Len(stk)] # "(" /\ PopsBefore(stk[Len(stk)], c)
    THEN PopHigher(Append(out, stk[Len(stk)]), SubSeq(stk, 1, Len(stk) - 1), c)
    ELSE <<out, stk>>

RECURSIVE PopAll(_, _)
\* while stack: output.append(stack.pop())
PopAll(out, stk) ==
    IF stk # <<>>
    THEN PopAll(Append(out, stk[Len(stk)]), SubSeq(stk, 1, Len(stk) - 1))
    ELSE out

\* None, where a State is expected.
None == [id |-> "None", is_final |-> FALSE]

Threads == {1, 2}

InitConcIdle ==
    /\ t_pc = [t \in Threads |-> "idle"]
    /\ t_postfix = [t \in Threads |-> <<>>]
    /\ t_idx = [t \in Threads |-> 1]
    /\ t_stack = [t \in Threads |-> <<>>]
    /\ t_self_id = [t \in Threads |-> "None"]
    /\ t_tmp = [t \in Threads |-> 0]
    /\ t_fresh = [t \in Threads |-> <<>>]
    /\ t_ids = [t \in Threads |-> <<>>]

InitBuildIdle ==
    /\ idx = 1
    /\ stack = <<>>
    /\ count = 0
    /\ result = <<>>
    /\ symbol_made = {}

InitCompile ==
    /\ regex \in InfixInputs
    /\ pc = "concat"
    /\ new_regex = <<>>
    /\ pos = 1
    /\ output = <<>>
    /\ opstack = <<>>
    /\ postfix = <<>>
    /\ InitBuildIdle
    /\ InitConcIdle

build_vars == <<idx, stack, count, result, symbol_made>>

\* new_regex = add_concat_operator(regex); output, stack = [], []
AddConcat ==
    /\ pc = "concat"
    /\ new_regex' = add_concat_operator(regex)
    /\ output' = <<>>
    /\ opstack' = <<>>
    /\ pos' = 1
    /\ pc' = "scan"
    /\ UNCHANGED <<regex, postfix, build_vars, conc_vars>>

\* if c not in precedence and c not in '()': output.append(c)
ScanSymbol ==
    /\ pc = "scan"
    /\ pos <= Len(new_regex)
    /\ ~InPrecedence(new_regex[pos])
    /\ new_regex[pos] \notin {"(", ")"}
    /\ output' = Append(output, new_regex[pos])
    /\ pos' = pos + 1
    /\ UNCHANGED <<pc, regex, new_regex, opstack, postfix, build_vars, conc_vars>>

\* elif c == '(': stack.append(c)
ScanOpen ==
    /\ pc = "scan"
    /\ pos <= Len(new_regex)
    /\ new_regex[pos] = "("
    /\ opstack' = Append(opstack, "(")
    /\ pos' = pos + 1
    /\ UNCHANGED <<pc, regex, new_regex, output, postfix, build_vars, conc_vars>>

\* elif c == ')': pop to the '(' and pop the '(' when there is one
ScanClose ==
    /\ pc = "scan"
    /\ pos <= Len(new_regex)
    /\ new_regex[pos] = ")"
    /\ LET popped == PopToParen(output, opstack)
           stk == popped[2]
       IN  /\ output' = popped[1]
           /\ opstack' = IF stk # <<>> /\ stk[Len(stk)] = "("
                         THEN SubSeq(stk, 1, Len(stk) - 1)
                         ELSE stk
    /\ pos' = pos + 1
    /\ UNCHANGED <<pc, regex, new_regex, postfix, build_vars, conc_vars>>

\* else: pop the operators of precedence >= c's, then stack.append(c)
ScanOperator ==
    /\ pc = "scan"
    /\ pos <= Len(new_regex)
    /\ InPrecedence(new_regex[pos])
    /\ LET popped == PopHigher(output, opstack, new_regex[pos])
       IN  /\ output' = popped[1]
           /\ opstack' = Append(popped[2], new_regex[pos])
    /\ pos' = pos + 1
    /\ UNCHANGED <<pc, regex, new_regex, postfix, build_vars, conc_vars>>

\* while stack: output.append(stack.pop());  return ''.join(output)
Finish ==
    /\ pc = "scan"
    /\ pos > Len(new_regex)
    /\ output' = PopAll(output, opstack)
    /\ opstack' = <<>>
    /\ postfix' = output'
    /\ pc' = "done"
    /\ UNCHANGED <<regex, new_regex, pos, build_vars, conc_vars>>

NextCompile ==
    \/ AddConcat
    \/ ScanSymbol
    \/ ScanOpen
    \/ ScanClose
    \/ ScanOperator
    \/ Finish

SpecCompile == InitCompile /\ [][NextCompile]_vars

(***************************************************************************)
(* Properties of infix_to_postfix                                           *)
(***************************************************************************)
Opens(re, k) == Cardinality({i \in 1..k : re[i] = "("})
Closes(re, k) == Cardinality({i \in 1..k : re[i] = ")"})

\* Some ')' has no '(' before it to match, or some '(' is never closed.
ParenMismatch(re) ==
    \/ \E k \in 1..Len(re) : Closes(re, k) > Opens(re, k)
    \/ Opens(re, Len(re)) # Closes(re, Len(re))

HasParen(s) == \E i \in 1..Len(s) : s[i] \in {"(", ")"}

\* C1: infix_to_postfix returns no postfix string for an infix input whose
\* parentheses do not match (a ')' with no '(' on the operator stack, or a
\* '(' left on it at end of input), and so no returned postfix string
\* contains '(' or ')'.
C1_UnbalancedRejected ==
    pc = "done" => ~ParenMismatch(regex) /\ ~HasParen(postfix)

OnlySymbols(re) ==
    \A i \in 1..Len(re) : re[i] \notin {"|", "*", "(", ")", "."}

\* The symbols joined by '.', in input order.
JoinDots(re) ==
    IF re = <<>> THEN <<>>
    ELSE [i \in 1..(2 * Len(re) - 1) |->
             IF i % 2 = 1 THEN re[(i + 1) \div 2] ELSE "."]

\* The first symbol, then every later symbol followed by '.'.
PostfixChain(re) ==
    IF re = <<>> THEN <<>>
    ELSE [i \in 1..(2 * Len(re) - 1) |->
             IF i = 1 THEN re[1]
             ELSE IF i % 2 = 0 THEN re[(i \div 2) + 1] ELSE "."]

\* C4 as stated: for an infix string made only of symbols, infix_to_postfix
\* returns the symbols joined by '.' ("ab" gives "a.b").
C4_SymbolsJoinedByDots ==
    pc = "done" /\ OnlySymbols(regex) => postfix = JoinDots(regex)

\* C4 amended: for an infix string made only of symbols, the symbols joined
\* by '.' are the result of add_concat_operator, and infix_to_postfix returns
\* the first symbol followed by every later symbol with a '.' after it
\* ("ab" gives "ab.", "abc" gives "ab.c.").
C4_SymbolsPostfixChain ==
    /\ pc # "concat" /\ OnlySymbols(regex) => new_regex = JoinDots(regex)
    /\ pc = "done" /\ OnlySymbols(regex) => postfix = PostfixChain(regex)
    /\ pc = "done" /\ regex = <<"a", "b">> => postfix = <<"a", "b", ".">>
    /\ pc = "done" /\ regex = <<"a", "b", "c">>
           => postfix = <<"a", "b", ".", "c", ".">>

C4_Witness ==
    /\ pc = "done"
    /\ regex = <<"a", "b", "c">>
    /\ new_regex = <<"a", ".", "b", ".", "c">>
    /\ postfix = <<"a", "b", ".", "c", ".">>

\* C5 as stated: infix_to_postfix returns "ab|" for "a|b", "a*.b" for "a*b"
\* and "ab|*c." for "(a|b)*c".
C5_PrecedenceExamples ==
    pc = "done" =>
        /\ regex = <<"a", "|", "b">> => postfix = <<"a", "b", "|">>
        /\ regex = <<"a", "*", "b">> => postfix = <<"a", "*", ".", "b">>
        /\ regex = <<"(", "a", "|", "b", ")", "*", "c">>
               => postfix = <<"a", "b", "|", "*", "c", ".">>

\* C5 amended: with the precedence '*' > '.' > '|' and parenthesis grouping,
\* infix_to_postfix returns "ab|" for "a|b", "a*b." for "a*b" ("a*.b" is the
\* result of add_concat_operator) and "ab|*c." for "(a|b)*c".
C5_PrecedenceExamplesPostfix ==
    /\ pc # "concat" /\ regex = <<"a", "*", "b">>
           => new_regex = <<"a", "*", ".", "b">>
    /\ pc = "done" =>
        /\ regex = <<"a", "|", "b">> => postfix = <<"a", "b", "|">>
        /\ regex = <<"a", "*", "b">> => postfix = <<"a", "*", "b", ".">>
        /\ regex = <<"(", "a", "|", "b", ")", "*", "c">>
               => postfix = <<"a", "b", "|", "*", "c", ".">>

C5_Witness ==
    /\ pc = "done"
    /\ regex = <<"(", "a", "|", "b", ")", "*", "c">>
    /\ postfix = <<"a", "b", "|", "*", "c", ".">>

\* A marker belongs between characters i and i+1 of re.
MarkerAfter(re, i) ==
    /\ i < Len(re)
    /\ re[i] \notin {"(", "|"}
    /\ re[i + 1] \notin {"|", ")", "*"}

\* Where character i of re stands in the marked string.
MarkedIndex(re, i) == i + Cardinality({j \in 1..(i - 1) : MarkerAfter(re, j)})

\* C10: add_concat_operator keeps every input character in order and puts a
\* '.' between adjacent characters c,d exactly when c is not '(' or '|' and d
\* is not '|', ')' or '*'; nothing follows the final character, a string of
\* length 0 or 1 is unchanged, and "(a)(b)" becomes "(a).(b)".
C10_ConcatInsertion ==
    pc # "concat" =>
        /\ Len(new_regex) = Len(regex)
               + Cardinality({j \in 1..Len(regex) : MarkerAfter(regex, j)})
        /\ \A i \in 1..Len(regex) :
               /\ new_regex[MarkedIndex(regex, i)] = regex[i]
               /\ MarkerAfter(regex, i)
                      => new_regex[MarkedIndex(regex, i) + 1] = "."
        /\ regex # <<>> => MarkedIndex(regex, Len(regex)) = Len(new_regex)
        /\ Len(regex) <= 1 => new_regex = regex
        /\ regex = <<"(", "a", ")", "(", "b", ")">>
               => new_regex = <<"(", "a", ")", ".", "(", "b", ")">>

C10_Witness ==
    /\ pc = "scan"
    /\ pos = 1
    /\ regex = <<"(", "a", ")", "(", "b", ")">>
    /\ new_regex = <<"(", "a", ")", ".", "(", "b", ")">>

(***************************************************************************)
(* State and build_nfa                                                      *)
(***************************************************************************)
\* f"q{State.count}"
StateId(n) == "q" \o ToString(n)

\* The object State.__init__ leaves behind when State.count was n.
NewState(n) == [id |-> StateId(n), is_final |-> FALSE]

IsSymbolToken(c) == c \notin {"*", "|", "."}

\* A fragment is the tuple (start, end, transitions) = <<f[1], f[2], f[3]>>.
\* A State object is only ever held by one fragment, so the fragment holds
\* it by value.
SymbolFragment(c, start, end) ==
    << start, [end EXCEPT !.is_final = TRUE], << <<start.id, c, end.id>> >> >>

\* Concatenation keeping the left operand's exit.
ConcatFragmentLeftExit(s1, s2) ==
    << s1[1], s1[2], s1[3] \o << <<s1[2].id, Epsilon, s2[1].id>> >> \o s2[3] >>

ConcatFragment(s1, s2) ==
    << s1[1], s2[2], s1[3] \o << <<s1[2].id, Epsilon, s2[1].id>> >> \o s2[3] >>

AltFragment(s1, s2, start, end) ==
    << start, [end EXCEPT !.is_final = TRUE],
       << <<start.id, Epsilon, s1[1].id>>, <<start.id, Epsilon, s2[1].id>> >>
       \o s1[3] \o s2[3]
       \o << <<s1[2].id, Epsilon, end.id>>, <<s2[2].id, Epsilon, end.id>> >> >>

\* Star with the loop-back edge listed before the body.
StarFragmentReordered(s, start, end) ==
    << start, [end EXCEPT !.is_final = TRUE],
       << <<start.id, Epsilon, s[1].id>>, <<start.id, Epsilon, end.id>>,
          <<s[2].id, Epsilon, s[1].id>> >>
       \o s[3]
       \o << <<s[2].id, Epsilon, end.id>> >> >>

StarFragment(s, start, end) ==
    << start, [end EXCEPT !.is_final = TRUE],
       << <<start.id, Epsilon, s[1].id>>, <<start.id, Epsilon, end.id>> >>
       \o s[3]
       \o << <<s[2].id, Epsilon, s[1].id>>, <<s[2].id, Epsilon, end.id>> >> >>

\* An error return that hands back the bottom fragment when there is one.
ErrorReturnPartial(stk) ==
    IF stk = <<>> THEN <<None, None, <<>>>> ELSE stk[1]

\* return None, None, []   (stk: the fragment list at that moment)
ErrorReturn(stk) == <<None, None, <<>>>>

Top(stk) == stk[Len(stk)]
Second(stk) == stk[Len(stk) - 1]
Drop(stk, n) == SubSeq(stk, 1, Len(stk) - n)

compile_vars == <<regex, new_regex, pos, output, opstack>>

InitBuild ==
    /\ postfix \in PostfixInputs
    /\ pc = "reset"
    /\ regex = <<>>
    /\ new_regex = <<>>
    /\ pos = 1
    /\ output = <<>>
    /\ opstack = <<>>
    /\ InitBuildIdle
    /\ InitConcIdle

\* State.count = 0;  build_nfa(postfix): stack = []
ResetCount ==
    /\ pc = "reset"
    /\ count' = 0
    /\ stack' = <<>>
    /\ idx' = 1
    /\ pc' = "build"
    /\ UNCHANGED <<postfix, result, symbol_made, compile_vars, conc_vars>>

\* if c not in {'*', '|', '.'}: two States, one transition, push
BuildSymbol ==
    /\ pc = "build"
    /\ idx <= Len(postfix)
    /\ IsSymbolToken(postfix[idx])
    /\ LET start == NewState(count)
           end == NewState(count + 1)
           frag == SymbolFragment(postfix[idx], start, end)
       IN  /\ stack' = Append(stack, frag)
           /\ symbol_made' = symbol_made \cup {frag[3][1]}
    /\ count' = count + 2
    /\ idx' = idx + 1
    /\ UNCHANGED <<pc, postfix, result, compile_vars, conc_vars>>

\* elif c == '.' with len(stack) < 2: return None, None, []
BuildConcatFail ==
    /\ pc = "build"
    /\ idx <= Len(postfix)
    /\ postfix[idx] = "."
    /\ Len(stack) < 2
    /\ result' = ErrorReturn(stack)
    /\ pc' = "done"
    /\ UNCHANGED <<postfix, idx, stack, count, symbol_made, compile_vars, conc_vars>>

\* elif c == '.': pop s2, pop s1, push their concatenation
BuildConcat ==
    /\ pc = "build"
    /\ idx <= Len(postfix)
    /\ postfix[idx] = "."
    /\ Len(stack) >= 2
    /\ LET s2 == Top(stack)
           s1 == [Second(stack) EXCEPT ![2].is_final = FALSE]
       IN  stack' = Append(Drop(stack, 2), ConcatFragment(s1, s2))
    /\ idx' = idx + 1
    /\ UNCHANGED <<pc, postfix, count, result, symbol_made, compile_vars, conc_vars>>

\* elif c == '|' with len(stack) < 2: return None, None, []
BuildAltFail ==
    /\ pc = "build"
    /\ idx <= Len(postfix)
    /\ postfix[idx] = "|"
    /\ Len(stack) < 2
    /\ result' = ErrorReturn(stack)
    /\ pc' = "done"
    /\ UNCHANGED <<postfix, idx, stack, count, symbol_made, compile_vars, conc_vars>>

\* elif c == '|': pop s2, pop s1, two States, push the alternation
BuildAlt ==
    /\ pc = "build"
    /\ idx <= Len(postfix)
    /\ postfix[idx] = "|"
    /\ Len(stack) >= 2
    /\ LET s2 == [Top(stack) EXCEPT ![2].is_final = FALSE]
           s1 == [Second(stack) EXCEPT ![2].is_final = FALSE]
           start == NewState(count)
           end == NewState(count + 1)
       IN  stack' = Append(Drop(stack, 2), AltFragment(s1, s2, start, end))
    /\ count' = count + 2
    /\ idx' = idx + 1
    /\ UNCHANGED <<pc, postfix, result, symbol_made, compile_vars, conc_vars>>

\* elif c == '*' with an empty stack: return None, None, []
BuildStarFail ==
    /\ pc = "build"
    /\ idx <= Len(postfix)
    /\ postfix[idx] = "*"
    /\ stack = <<>>
    /\ result' = ErrorReturn(stack)
    /\ pc' = "done"
    /\ UNCHANGED <<postfix, idx, stack, count, symbol_made, compile_vars, conc_vars>>

\* elif c == '*': pop s, two States, push the star
BuildStar ==
    /\ pc = "build"
    /\ idx <= Len(postfix)
    /\ postfix[idx] = "*"
    /\ stack # <<>>
    /\ LET s == [Top(stack) EXCEPT ![2].is_final = FALSE]
           start == NewState(count)
           end == NewState(count + 1)
       IN  stack' = Append(Drop(stack, 1), StarFragment(s, start, end))
    /\ count' = count + 2
    /\ idx' = idx + 1
    /\ UNCHANGED <<pc, postfix, result, symbol_made, compile_vars, conc_vars>>

\* if not stack: return None, None, []
BuildEmpty ==
    /\ pc = "build"
    /\ idx > Len(postfix)
    /\ stack = <<>>
    /\ result' = ErrorReturn(stack)
    /\ pc' = "done"
    /\ UNCHANGED <<postfix, idx, stack, count, symbol_made, compile_vars, conc_vars>>

\* return stack[0]
BuildReturn ==
    /\ pc = "build"
    /\ idx > Len(postfix)
    /\ stack # <<>>
    /\ result' = stack[1]
    /\ pc' = "done"
    /\ UNCHANGED <<postfix, idx, stack, count, symbol_made, compile_vars, conc_vars>>

NextBuild ==
    \/ ResetCount
    \/ BuildSymbol
    \/ BuildConcatFail
    \/ BuildConcat
    \/ BuildAltFail
    \/ BuildAlt
    \/ BuildStarFail
    \/ BuildStar
    \/ BuildEmpty
    \/ BuildReturn

SpecBuild == InitBuild /\ [][NextBuild]_vars

(***************************************************************************)
(* Properties of build_nfa                                                  *)
(***************************************************************************)
Failure == <<None, None, <<>>>>

\* The returned tuple as the automaton it denotes.
Automaton(frag) ==
    [start |-> frag[1].id, accept |-> frag[2].id, transitions |-> frag[3]]

StatesOf(trs) == {trs[i][1] : i \in 1..Len(trs)} \cup {trs[i][3] : i \in 1..Len(trs)}

RECURSIVE Depth(_, _)
\* Fragments on the stack after the first k tokens, each operator having
\* found its operands.
Depth(p, k) ==
    IF k = 0 THEN 0
    ELSE Depth(p, k - 1)
         + (IF IsSymbolToken(p[k]) THEN 1 ELSE IF p[k] = "*" THEN 0 ELSE -1)

\* Token k is an operator that meets too few fragments.
Offending(p, k) ==
    \/ p[k] \in {".", "|"} /\ Depth(p, k - 1) < 2
    \/ p[k] = "*" /\ Depth(p, k - 1) < 1

\* The first offending token, 0 when there is none.
FirstOffending(p) ==
    IF \E k \in 1..Len(p) : Offending(p, k)
    THEN CHOOSE k \in 1..Len(p) :
             Offending(p, k) /\ \A j \in 1..(k - 1) : ~Offending(p, j)
    ELSE 0

\* C2: build_nfa returns an automaton only if exactly one fragment is on the
\* fragment stack after the last token; a postfix string that leaves more
\* than one fragment ("ab") is rejected instead of returning one of them.
C2_ResidualFragmentsRejected ==
    pc = "done" =>
        /\ result # Failure => Len(stack) = 1
        /\ postfix = <<"a", "b">> => result = Failure

\* C3: build_nfa returns (None, None, []) and nothing of the fragments built
\* so far, stopping at the offending token, when '.' or '|' meets fewer than
\* 2 fragments, when '*' meets none, and when no fragment is left after the
\* last token (build_nfa("") in particular).
C3_NoPartialAutomaton ==
    pc = "done" =>
        /\ FirstOffending(postfix) # 0
               => result = Failure /\ idx = FirstOffending(postfix)
        /\ FirstOffending(postfix) = 0 /\ Depth(postfix, Len(postfix)) = 0
               => result = Failure
        /\ postfix = <<>> => result = Failure
        /\ result[1] = None \/ result[2] = None => result = Failure

C3_Witness ==
    /\ pc = "done"
    /\ result = Failure
    /\ Len(stack) = 1
    /\ idx <= Len(postfix)
    /\ postfix[idx] = "|"

RECURSIVE SubLen(_, _)
\* Length of the postfix sub-expression whose last token is token k;
\* 0 when the tokens up to k do not end in a complete sub-expression.
SubLen(p, k) ==
    IF k < 1 THEN 0
    ELSE IF IsSymbolToken(p[k]) THEN 1
    ELSE IF p[k] = "*"
         THEN LET a == SubLen(p, k - 1) IN IF a = 0 THEN 0 ELSE a + 1
    ELSE LET b == SubLen(p, k - 1)
         IN  IF b = 0 THEN 0
             ELSE LET a == SubLen(p, k - 1 - b)
                  IN  IF a = 0 THEN 0 ELSE a + b + 1

WellFormed(p) == p # <<>> /\ SubLen(p, Len(p)) = Len(p)

\* States created by the tokens before token k: two per token but '.'.
FreshBase(p, k) == 2 * Cardinality({j \in 1..(k - 1) : p[j] # "."})

RECURSIVE RefFrag(_, _)
\* Thompson's construction of the sub-expression ending at token k, by
\* recursion on the expression, states numbered in token order.
RefFrag(p, k) ==
    LET s == StateId(FreshBase(p, k))
        e == StateId(FreshBase(p, k) + 1)
    IN  IF IsSymbolToken(p[k])
        THEN [start |-> s, accept |-> e, transitions |-> << <<s, p[k], e>> >>]
        ELSE IF p[k] = "*"
        THEN LET f == RefFrag(p, k - 1)
             IN  [start |-> s, accept |-> e,
                  transitions |->
                      << <<s, Epsilon, f.start>>, <<s, Epsilon, e>> >>
                      \o f.transitions
                      \o << <<f.accept, Epsilon, f.start>>,
                            <<f.accept, Epsilon, e>> >>]
        ELSE LET f2 == RefFrag(p, k - 1)
                 f1 == RefFrag(p, k - 1 - SubLen(p, k - 1))
             IN  IF p[k] = "."
                 THEN [start |-> f1.start, accept |-> f2.accept,
                       transitions |->
                           f1.transitions
                           \o << <<f1.accept, Epsilon, f2.start>> >>
                           \o f2.transitions]
                 ELSE [start |-> s, accept |-> e,
                       transitions |->
                           << <<s, Epsilon, f1.start>>,
                              <<s, Epsilon, f2.start>> >>
                           \o f1.transitions \o f2.transitions
                           \o << <<f1.accept, Epsilon, e>>,
                                 <<f2.accept, Epsilon, e>> >>]

RECURSIVE StackMatches(_, _, _)
\* The fragments of stk, top first, are the reference fragments of the
\* consecutive sub-expressions that end at token e.
StackMatches(stk, p, e) ==
    IF stk = <<>> THEN e = 0
    ELSE /\ e >= 1
         /\ SubLen(p, e) >= 1
         /\ Automaton(Top(stk)) = RefFrag(p, e)
         /\ StackMatches(Drop(stk, 1), p, e - SubLen(p, e))

\* C6: the fragments build_nfa holds, and the start, accept and ordered
\* transition list it returns for a postfix string that leaves one fragment,
\* are those of the reference recursive definition (symbol: fresh s,e and
\* [(s,sym,e)]; '.', '|', '*' as in Thompson's construction, in that order);
\* build_nfa("a") has 2 states and 1 transition labelled a with start #
\* accept, build_nfa("a*") has 4 states and the 5 transitions in order.
C6_MatchesReference ==
    /\ pc \in {"build", "done"} => StackMatches(stack, postfix, idx - 1)
    /\ pc = "done" /\ WellFormed(postfix) =>
           /\ result # Failure
           /\ Automaton(result) = RefFrag(postfix, Len(postfix))
    /\ pc = "done" /\ postfix = <<"a">> =>
           /\ result # Failure
           /\ Cardinality(StatesOf(result[3])) = 2
           /\ Len(result[3]) = 1
           /\ result[3][1] = <<result[1].id, "a", result[2].id>>
           /\ result[1].id # result[2].id
    /\ pc = "done" /\ postfix = <<"a", "*">> =>
           /\ result # Failure
           /\ Cardinality(StatesOf(result[3])) = 4
           /\ result[3] = << <<"q2", Epsilon, "q0">>, <<"q2", Epsilon, "q3">>,
                             <<"q0", "a", "q1">>,
                             <<"q1", Epsilon, "q0">>, <<"q1", Epsilon, "q3">> >>
           /\ result[1].id = "q2"
           /\ result[2].id = "q3"

C6_Witness ==
    /\ pc = "done"
    /\ postfix = <<"a", "b", "|", "*">>
    /\ result # Failure
    /\ Len(result[3]) = 10

\* C8: in a returned automaton no transition made by the symbol branch
\* carries the label the '.', '|' and '*' branches put on epsilon
\* transitions, whatever single characters the postfix input uses.
C8_EpsilonLabelDistinct ==
    pc = "done" /\ result # Failure =>
        \A i \in 1..Len(result[3]) :
            result[3][i] \in symbol_made => result[3][i][2] # Epsilon

\* No transition of the fragment leaves its exit state.
ExitIsSink(frag) ==
    \A i \in 1..Len(frag[3]) : frag[3][i][1] # frag[2].id

\* C9: at every step of build_nfa no fragment on the stack has a transition
\* whose source is the fragment's exit state, so the accept state of every
\* returned automaton has no outgoing transition.
C9_ExitIsSink ==
    /\ \A j \in 1..Len(stack) : ExitIsSink(stack[j])
    /\ pc = "done" /\ result # Failure => ExitIsSink(result)

C9_Witness ==
    /\ pc = "done"
    /\ postfix = <<"a", "*", "b", ".">>
    /\ result # Failure
    /\ Len(result[3]) = 7
    /\ ExitIsSink(result)

(***************************************************************************)
(* Two build_nfa calls on two threads.  State.count is the one class        *)
(* attribute both use; everything else is local to a call.  Between two     *)
(* accesses of State.count a thread's local work is part of the step that   *)
(* makes the later access.  State.__init__ is three steps: self.id =        *)
(* f"q{State.count}", the load of State.count for `+= 1', and the store of  *)
(* the loaded value plus one.                                               *)
(***************************************************************************)
ConcAlphabet == {"a", ".", "|", "*"}
\* The two calls' arguments: MaxConcTokens tokens at most between them.
ConcInputs ==
    {f \in [Threads -> Strings(ConcAlphabet, MaxConcTokens)] :
        Len(f[1]) + Len(f[2]) <= MaxConcTokens}

InitConc ==
    /\ t_postfix \in ConcInputs
    /\ t_pc = [t \in Threads |-> "reset"]
    /\ t_idx = [t \in Threads |-> 1]
    /\ t_stack = [t \in Threads |-> <<>>]
    /\ t_self_id = [t \in Threads |-> "None"]
    /\ t_tmp = [t \in Threads |-> 0]
    /\ t_fresh = [t \in Threads |-> <<>>]
    /\ t_ids = [t \in Threads |-> <<>>]
    /\ pc = "idle"
    /\ regex = <<>>
    /\ new_regex = <<>>
    /\ pos = 1
    /\ output = <<>>
    /\ opstack = <<>>
    /\ postfix = <<>>
    /\ InitBuildIdle

idle_vars == <<pc, regex, new_regex, pos, output, opstack, postfix, idx,
               stack, result, symbol_made>>

\* The token at t's index makes two States (its operands being there).
MakesStates(t) ==
    /\ t_idx[t] <= Len(t_postfix[t])
    /\ LET c == t_postfix[t][t_idx[t]]
       IN  \/ IsSymbolToken(c)
           \/ c = "|" /\ Len(t_stack[t]) >= 2
           \/ c = "*" /\ t_stack[t] # <<>>

\* The fragment list once the token's two States exist.
Combined(c, stk, start, end) ==
    IF IsSymbolToken(c)
    THEN Append(stk, SymbolFragment(c, start, end))
    ELSE IF c = "|"
    THEN Append(Drop(stk, 2),
             AltFragment([Second(stk) EXCEPT ![2].is_final = FALSE],
                         [Top(stk) EXCEPT ![2].is_final = FALSE], start, end))
    ELSE Append(Drop(stk, 1),
             StarFragment([Top(stk) EXCEPT ![2].is_final = FALSE], start, end))

\* State.count = 0;  build_nfa(postfix): stack = []
TReset(t) ==
    /\ t_pc[t] = "reset"
    /\ count' = 0
    /\ t_pc' = [t_pc EXCEPT ![t] = "token"]
    /\ UNCHANGED <<t_postfix, t_idx, t_stack, t_self_id, t_tmp, t_fresh,
                   t_ids, idle_vars>>

\* State.__init__: self.id = f"q{State.count}"
TInitId(t) ==
    /\ \/ t_pc[t] = "token" /\ MakesStates(t)
       \/ t_pc[t] = "init_id"
    /\ t_self_id' = [t_self_id EXCEPT ![t] = StateId(count)]
    /\ t_pc' = [t_pc EXCEPT ![t] = "init_load"]
    /\ UNCHANGED <<count, t_postfix, t_idx, t_stack, t_tmp, t_fresh, t_ids,
                   idle_vars>>

\* State.__init__: State.count += 1, the load
TInitLoad(t) ==
    /\ t_pc[t] = "init_load"
    /\ t_tmp' = [t_tmp EXCEPT ![t] = count]
    /\ t_pc' = [t_pc EXCEPT ![t] = "init_store"]
    /\ UNCHANGED <<count, t_postfix, t_idx, t_stack, t_self_id, t_fresh,
                   t_ids, idle_vars>>

\* State.__init__: State.count += 1, the store; self.is_final = False.
\* After the token's second State the fragment is pushed.
TInitStore(t) ==
    /\ t_pc[t] = "init_store"
    /\ count' = t_tmp[t] + 1
    /\ t_ids' = [t_ids EXCEPT ![t] = Append(@, t_self_id[t])]
    /\ LET made == Append(t_fresh[t], [id |-> t_self_id[t], is_final |-> FALSE])
       IN  IF Len(made) = 2
           THEN /\ t_stack' = [t_stack EXCEPT ![t] =
                        Combined(t_postfix[t][t_idx[t]], @, made[1], made[2])]
                /\ t_idx' = [t_idx EXCEPT ![t] = @ + 1]
                /\ t_fresh' = [t_fresh EXCEPT ![t] = <<>>]
                /\ t_pc' = [t_pc EXCEPT ![t] = "token"]
           ELSE /\ t_fresh' = [t_fresh EXCEPT ![t] = made]
                /\ t_pc' = [t_pc EXCEPT ![t] = "init_id"]
                /\ UNCHANGED <<t_stack, t_idx>>
    /\ t_self_id' = [t_self_id EXCEPT ![t] = "None"]
    /\ t_tmp' = [t_tmp EXCEPT ![t] = 0]
    /\ UNCHANGED <<t_postfix, idle_vars>>

\* elif c == '.': pop s2, pop s1, push their concatenation
TConcat(t) ==
    /\ t_pc[t] = "token"
    /\ t_idx[t] <= Len(t_postfix[t])
    /\ t_postfix[t][t_idx[t]] = "."
    /\ Len(t_stack[t]) >= 2
    /\ t_stack' = [t_stack EXCEPT ![t] =
           Append(Drop(@, 2),
               ConcatFragment([Second(@) EXCEPT ![2].is_final = FALSE], Top(@)))]
    /\ t_idx' = [t_idx EXCEPT ![t] = @ + 1]
    /\ UNCHANGED <<count, t_pc, t_postfix, t_self_id, t_tmp, t_fresh, t_ids,
                   idle_vars>>

\* An operator short of operands: return None, None, []
TOperatorFail(t) ==
    /\ t_pc[t] = "token"
    /\ t_idx[t] <= Len(t_postfix[t])
    /\ LET c == t_postfix[t][t_idx[t]]
       IN  \/ c \in {".", "|"} /\ Len(t_stack[t]) < 2
           \/ c = "*" /\ t_stack[t] = <<>>
    /\ t_pc' = [t_pc EXCEPT ![t] = "done"]
    /\ UNCHANGED <<count, t_postfix, t_idx, t_stack, t_self_id, t_tmp,
                   t_fresh, t_ids, idle_vars>>

\* End of the tokens: return None, None, [] or return stack[0]
TReturn(t) ==
    /\ t_pc[t] = "token"
    /\ t_idx[t] > Len(t_postfix[t])
    /\ t_pc' = [t_pc EXCEPT ![t] = "done"]
    /\ UNCHANGED <<count, t_postfix, t_idx, t_stack, t_self_id, t_tmp,
                   t_fresh, t_ids, idle_vars>>

NextConc ==
    \E t \in Threads :
        \/ TReset(t)
        \/ TInitId(t)
        \/ TInitLoad(t)
        \/ TInitStore(t)
        \/ TConcat(t)
        \/ TOperatorFail(t)
        \/ TReturn(t)

SpecConc == InitConc /\ [][NextConc]_vars

\* C7: with two uncoordinated build_nfa calls interleaved at the steps of
\* State.__init__, the State ids created within one call are pairwise
\* distinct.
C7_IdsDistinctWithinInvocation ==
    \A t \in Threads :
        \A i, j \in 1..Len(t_ids[t]) : i # j => t_ids[t][i] # t_ids[t][j]

====
